---------------------------- MODULE Spec2Model ----------------------------
(* A model of the movie service: the Movies data-access class              *)
(* (src/movies/movies.py) over a DynamoDB table, and the FastAPI routes    *)
(* (src/app.py) that call it.                                              *)
EXTENDS Integers, Sequences, FiniteSets, TLC

(***************************************************************************)
(* Bounds of the model.                                                    *)
(***************************************************************************)
\* a float has FracBits binary digits after the point: numer / 2^FracBits
FracBits == 4
\* the finite floats of the model are 0 .. MaxNumer (numerators)
MaxNumer == 2
\* the store returns between 0 and MaxPage items per scan page
MaxPage == 2

Plots == {"p", "q"}
\* the keys that requests name
Keys == {[year |-> 1999, title |-> "a"], [year |-> 2010, title |-> "b"]}
\* the keys of the table, in the order a scan of the store returns them
ScanOrder == <<[year |-> 1999, title |-> "a"], [year |-> 2010, title |-> "a"],
               [year |-> 2010, title |-> "b"]>>

(***************************************************************************)
(* Numbers.  A Python float is a binary fraction numer / 2^FracBits, or a  *)
(* non-finite value (nan, inf).  A Decimal is coef / 10^digits.            *)
(***************************************************************************)
Scale == 2 ^ FracBits
NaN == 0 - 1
Floats == (0..MaxNumer) \cup {NaN}
IsFinite(f) == f # NaN

Dec(coef, digits) == [finite |-> TRUE, coef |-> coef, digits |-> digits]
DecNaN == [finite |-> FALSE, coef |-> 0, digits |-> 0]

\* num / den rounded to the nearest integer, ties to even
RoundHalfEven(num, den) ==
    LET q == num \div den
        r == num % den
    IN  IF 2 * r < den THEN q
        ELSE IF 2 * r > den THEN q + 1
        ELSE IF q % 2 = 0 THEN q ELSE q + 1

\* float(d): the float nearest to the decimal coef / 10^digits
FloatOfDecimal(d) == RoundHalfEven(d.coef * Scale, 10 ^ d.digits)

\* |coef / 10^digits - f / Scale|, scaled by 10^digits * Scale
Distance(coef, digits, f) ==
    LET a == coef * Scale
        b == f * (10 ^ digits)
    IN  IF a >= b THEN a - b ELSE b - a

\* the decimals of `digits` fractional digits that read back as the float f
ReadBack(f, digits) ==
    LET lo == (f * (10 ^ digits)) \div Scale
    IN  {c \in (IF lo = 0 THEN {0, 1} ELSE {lo - 1, lo, lo + 1}) :
            FloatOfDecimal(Dec(c, digits)) = f}

\* the candidate closest to f (the even coefficient on a tie)
Closest(f, digits, cands) ==
    CHOOSE c \in cands :
        \A o \in cands :
            \/ Distance(c, digits, f) < Distance(o, digits, f)
            \/ /\ Distance(c, digits, f) = Distance(o, digits, f)
               /\ (c = o \/ c % 2 = 0)

RECURSIVE ShortestRepr(_, _)
ShortestRepr(f, digits) ==
    IF ReadBack(f, digits) # {} \/ digits >= FracBits
    THEN Dec(Closest(f, digits, ReadBack(f, digits)), digits)
    ELSE ShortestRepr(f, digits + 1)

\* a formatting that keeps one fractional digit only ('%.1f')
OneDigitStr(f) ==
    IF IsFinite(f)
    THEN Dec(RoundHalfEven(f * 10, Scale), 1)
    ELSE DecNaN

\* Decimal(str(rating)): str() of a float is the shortest decimal, of at
\* least one fractional digit, that reads back as the same float
DecimalOfStr(f) == IF IsFinite(f) THEN ShortestRepr(f, 1) ELSE DecNaN

\* the store keeps the numeric value of a number, not its spelling
RECURSIVE Normalize(_)
Normalize(d) ==
    IF d.digits > 0 /\ d.coef % 10 = 0
    THEN Normalize([d EXCEPT !.coef = d.coef \div 10, !.digits = d.digits - 1])
    ELSE d

(***************************************************************************)
(* Values.  An attribute value is a string (S) or a number (N).  A movie   *)
(* record is {year, title, info}, info a map from attribute names to       *)
(* attribute values (the class docstring, movies.py:14-31).                *)
(***************************************************************************)
S(str) == [t |-> "S", s |-> str, n |-> Dec(0, 0)]
N(dec) == [t |-> "N", s |-> "", n |-> dec]

KeyOf(item) == [year |-> item.year, title |-> item.title]
MkKey(title, year) == [year |-> year, title |-> title]

\* records the table may hold before the service starts: they carry
\* attributes of info that the service never writes
SeedItems ==
    {[year |-> 1999, title |-> "a",
      info |-> [plot |-> S("p"), rating |-> N(Dec(0, 0)), rank |-> N(Dec(7, 0))]],
     [year |-> 2010, title |-> "a",
      info |-> [plot |-> S("q"), rating |-> N(Dec(5, 0)), rank |-> N(Dec(9, 0))]]}

\* Python values returned by the methods
None == [kind |-> "None"]
ItemValue(item) == [kind |-> "dict", item |-> item]
AttributesValue(info) == [kind |-> "Attributes", info |-> info]
ListValue(data) == [kind |-> "list", data |-> data]
TableValue(name) == [kind |-> "Table", name |-> name]
ResponseValue == [kind |-> "response", ResponseMetadata |-> TRUE]

\* bool(v) of Python: None and empty containers are false
Truthy(v) ==
    CASE v.kind = "None" -> FALSE
      [] v.kind = "list" -> Len(v.data) > 0
      [] v.kind = "Attributes" -> DOMAIN v.info # {}
      [] OTHER -> TRUE

\* exceptions
NoExc == [type |-> "none", code |-> "", status |-> 0]
ClientError(code) == [type |-> "ClientError", code |-> code, status |-> 0]
HTTPException(status, detail) == [type |-> "HTTPException", code |-> detail, status |-> status]
TypeError == [type |-> "TypeError", code |-> "Infinity and NaN not supported", status |-> 0]

\* the error a failing store raises, whatever the request
StoreFault == ClientError("InternalServerError")

(***************************************************************************)
(* The store: the requests of the boto3 Table resource that the class      *)
(* issues, as functions of the table's items.                              *)
(***************************************************************************)
Lookup(its, key) == {i \in its : KeyOf(i) = key}

\* table.get_item(Key=...): the response holds 'Item' only when found
get_item(its, key) ==
    IF Lookup(its, key) = {}
    THEN [hasItem |-> FALSE]
    ELSE [hasItem |-> TRUE, Item |-> CHOOSE i \in Lookup(its, key) : TRUE]

\* a put that keeps the record already stored under the key
PutKeepsOld(its, item) ==
    IF Lookup(its, KeyOf(item)) = {} THEN its \cup {item} ELSE its

\* table.put_item(Item=...): unconditional, replaces the record of the key
put_item(its, item) == (its \ Lookup(its, KeyOf(item))) \cup {item}

\* table.delete_item(Key=...)
delete_item(its, key) == its \ Lookup(its, key)

\* an update that replaces the whole info map
UpdateReplacesInfo(its, key, r, p) ==
    LET old == CHOOSE i \in Lookup(its, key) : TRUE
        new == [old EXCEPT !.info = [rating |-> N(r), plot |-> S(p)]]
    IN  (its \ {old}) \cup {new}

\* "set info.rating=:r, info.plot=:p" applied to the record of the key
SetRatingPlot(its, key, r, p) ==
    LET old == CHOOSE i \in Lookup(its, key) : TRUE
        new == [old EXCEPT !.info =
                   [a \in DOMAIN old.info \cup {"rating", "plot"} |->
                       IF a = "rating" THEN N(r)
                       ELSE IF a = "plot" THEN S(p)
                       ELSE old.info[a]]]
    IN  (its \ {old}) \cup {new}

\* table.update_item(Key, UpdateExpression, ..., ReturnValues="UPDATED_NEW"):
\* with no record under the key there is no info map to set a path in, and
\* the store rejects the document path
update_item(its, key, r, p) ==
    IF Lookup(its, key) = {}
    THEN [exc |-> ClientError("ValidationException"), items |-> its,
          Attributes |-> [info |-> [rating |-> N(r), plot |-> S(p)]]]
    ELSE [exc |-> NoExc, items |-> SetRatingPlot(its, key, r, p),
          Attributes |-> [info |-> [rating |-> N(r), plot |-> S(p)]]]

\* the items of the table in the order a scan returns them
RECURSIVE InScanOrder(_, _)
InScanOrder(its, i) ==
    IF i > Len(ScanOrder) THEN << >>
    ELSE (IF Lookup(its, ScanOrder[i]) = {} THEN << >>
          ELSE <<CHOOSE x \in Lookup(its, ScanOrder[i]) : TRUE>>)
         \o InScanOrder(its, i + 1)

\* the position of a key in the scan order
Pos(key) == CHOOSE i \in 1..Len(ScanOrder) : ScanOrder[i] = key

NoStartKey == [present |-> FALSE]
StartKey(key) == [present |-> TRUE, key |-> key]

\* the items a scan has still to return after the marker `start`
After(its, start) ==
    LET all == InScanOrder(its, 1)
    IN  IF start.present
        THEN SelectSeq(all, LAMBDA i : Pos(KeyOf(i)) > Pos(start.key))
        ELSE all

\* a scan that resumes one item too far after the marker
ScanSkipsAfterMarker(its, start, page, trailing) ==
    LET rest == After(its, start)
        after == IF start.present /\ Len(rest) > 0 THEN Tail(rest) ELSE rest
        n == IF page < Len(after) THEN page ELSE Len(after)
    IN  [Items |-> SubSeq(after, 1, n),
         hasLastEvaluatedKey |-> n < Len(after) \/ (trailing /\ n = page),
         LastEvaluatedKey |-> IF n > 0 THEN KeyOf(after[n]) ELSE ScanOrder[1]]

\* table.scan(ExclusiveStartKey=start): at most `page` items after the
\* marker (none: from the beginning).  The response carries
\* LastEvaluatedKey when items remain, and (trailing) also when the page
\* was filled exactly at the end of the table: the next page is then empty.
scan(its, start, page, trailing) ==
    LET after == After(its, start)
        n == IF page < Len(after) THEN page ELSE Len(after)
    IN  [Items |-> SubSeq(after, 1, n),
         hasLastEvaluatedKey |-> n < Len(after) \/ (trailing /\ n = page),
         LastEvaluatedKey |-> IF n > 0 THEN KeyOf(after[n]) ELSE ScanOrder[1]]
(***************************************************************************)
(* class Movies.  Each method is a function of the table's state and of    *)
(* `fault`, the ordinal of the store request of this call that fails       *)
(* (0: none does).  It yields the exception raised (or none), the value    *)
(* returned, the items of the table afterwards, the store requests issued  *)
(* and whether the error was logged.                                       *)
(***************************************************************************)
Outcome(exc, ret, its, calls, logged) ==
    [exc |-> exc, ret |-> ret, items |-> its, calls |-> calls, logged |-> logged]

Raised(o) == o.exc.type # "none"

\* check_table_exists: table.load(); "not found" means the table is absent
check_table_exists(exists, fault) ==
    IF fault = 1 THEN [exc |-> StoreFault, result |-> FALSE]
    ELSE [exc |-> NoExc, result |-> exists]

\* create_table: `bound` says whether self.table was assigned.  The
\* existing-table branch assigns self.table and falls off the end of the
\* method, which returns None; only the try's else clause returns self.table.
create_table(exists, name, fault) ==
    LET chk == check_table_exists(exists, fault)
    IN  IF chk.exc.type # "none"
        THEN [exc |-> chk.exc, ret |-> None, exists |-> exists, bound |-> FALSE,
              calls |-> <<"load">>, logged |-> FALSE]
        ELSE IF chk.result
        THEN [exc |-> NoExc, ret |-> None, exists |-> exists, bound |-> TRUE,
              calls |-> <<"load">>, logged |-> FALSE]
        ELSE IF fault = 2
        THEN [exc |-> StoreFault, ret |-> None, exists |-> exists, bound |-> FALSE,
              calls |-> <<"load", "create_table">>, logged |-> TRUE]
        ELSE [exc |-> NoExc, ret |-> TableValue(name), exists |-> TRUE, bound |-> TRUE,
              calls |-> <<"load", "create_table", "wait_until_exists">>,
              logged |-> FALSE]

\* get_movie: response['Item'], or None on KeyError
get_movie(its, title, year, fault) ==
    IF fault = 1
    THEN Outcome(StoreFault, None, its, <<"get_item">>, TRUE)
    ELSE LET response == get_item(its, MkKey(title, year))
         IN  Outcome(NoExc,
                     IF response.hasItem THEN ItemValue(response.Item) ELSE None,
                     its, <<"get_item">>, FALSE)

\* the Item dict add_movie builds and returns
NewItem(title, year, plot, rating) ==
    [year |-> year, title |-> title,
     info |-> [plot |-> S(plot), rating |-> N(DecimalOfStr(rating))]]

\* what the store keeps of an item: numbers by value
Stored(item) ==
    [item EXCEPT !.info =
        [a \in DOMAIN item.info |->
            IF item.info[a].t = "N" THEN N(Normalize(item.info[a].n))
            ELSE item.info[a]]]

\* the put of add_movie (lines 111-131), after the existence check passed.
\* The serializer of the client refuses a non-finite Decimal with a
\* TypeError, which the except clause does not catch.
AddPut(its, title, year, plot, rating, failing, calls) ==
    LET Item == NewItem(title, year, plot, rating)
    IN  IF ~Item.info.rating.n.finite
        THEN Outcome(TypeError, None, its, calls, FALSE)
        ELSE IF failing
        THEN Outcome(StoreFault, None, its, Append(calls, "put_item"), TRUE)
        ELSE Outcome(NoExc, ItemValue(Item), put_item(its, Stored(Item)),
                     Append(calls, "put_item"), FALSE)

\* an add_movie that writes without looking
AddWithoutCheck(its, title, year, plot, rating, fault) ==
    AddPut(its, title, year, plot, rating, fault = 2, << >>)

\* add_movie
add_movie(its, title, year, plot, rating, fault) ==
    LET found == get_movie(its, title, year, fault)
    IN  IF Raised(found) THEN found
        ELSE IF Truthy(found.ret)
        THEN Outcome(HTTPException(400, "Item already exists"), None, its,
                     found.calls, FALSE)
        ELSE AddPut(its, title, year, plot, rating, fault = 2, found.calls)

\* the while loop of list_all_items: one more scan for each response that
\* carries LastEvaluatedKey
RECURSIVE ScanLoop(_, _, _, _, _)
ScanLoop(its, response, data, page, trailing) ==
    IF response.hasLastEvaluatedKey
    THEN LET next == scan(its, StartKey(response.LastEvaluatedKey), page, trailing)
         IN  ScanLoop(its, next, data \o next.Items, page, trailing)
    ELSE data

\* list_all_items: no try, nothing logged
list_all_items(its, page, trailing, fault) ==
    IF fault = 1
    THEN Outcome(StoreFault, None, its, <<"scan">>, FALSE)
    ELSE LET response == scan(its, NoStartKey, page, trailing)
         IN  Outcome(NoExc,
                     ListValue(ScanLoop(its, response, response.Items, page, trailing)),
                     its, <<"scan">>, FALSE)

\* update_movie
update_movie(its, title, year, rating, plot, fault) ==
    LET r == DecimalOfStr(rating)
        response == update_item(its, MkKey(title, year), Normalize(r), plot)
    IN  IF ~r.finite
        THEN Outcome(TypeError, None, its, << >>, FALSE)
        ELSE IF fault = 1
        THEN Outcome(StoreFault, None, its, <<"update_item">>, TRUE)
        ELSE IF response.exc.type # "none"
        THEN Outcome(response.exc, None, its, <<"update_item">>, TRUE)
        ELSE Outcome(NoExc, AttributesValue(response.Attributes.info),
                     response.items, <<"update_item">>, FALSE)

\* a delete_movie that issues the delete without the lookup
DeleteWithoutCheck(its, title, year, fault) ==
    IF fault = 2
    THEN Outcome(HTTPException(500, "InternalServerError"), None, its,
                 <<"delete_item">>, FALSE)
    ELSE Outcome(NoExc, ResponseValue, delete_item(its, MkKey(title, year)),
                 <<"delete_item">>, FALSE)

\* delete_movie: a ClientError of the delete becomes HTTPException(500)
delete_movie(its, title, year, fault) ==
    LET found == get_movie(its, title, year, fault)
    IN  IF Raised(found) THEN found
        ELSE IF ~Truthy(found.ret)
        THEN Outcome(HTTPException(400, "Item doesn't exists"), None, its,
                     found.calls, FALSE)
        ELSE IF fault = 2
        THEN Outcome(HTTPException(500, "InternalServerError"), None, its,
                     Append(found.calls, "delete_item"), FALSE)
        ELSE Outcome(NoExc, ResponseValue, delete_item(its, MkKey(title, year)),
                     Append(found.calls, "delete_item"), FALSE)
(***************************************************************************)
(* The HTTP surface (src/app.py): the status FastAPI answers with.         *)
(***************************************************************************)
\* an HTTPException answers with its status, any other exception with 500
Respond(o) ==
    IF ~Raised(o) THEN 200
    ELSE IF o.exc.type = "HTTPException" THEN o.exc.status
    ELSE 500

\* GET /get_movie returns movie_info as it is, None included
app_get_movie(o) == Respond(o)

\* PUT /update_movie answers 404 when the method returned a false value
app_update_movie(o) ==
    IF Raised(o) THEN Respond(o)
    ELSE IF ~Truthy(o.ret) THEN 404
    ELSE 200

\* DELETE /delete_movie answers 404 when the response lacks ResponseMetadata
app_delete_movie(o) ==
    IF Raised(o) THEN Respond(o)
    ELSE IF ~o.ret.ResponseMetadata THEN 404
    ELSE 200

(***************************************************************************)
(* State.                                                                  *)
(***************************************************************************)
VARIABLES
    pc,           \* the process: "boot" (Movies constructed), "serving", "crashed"
    tableExists,  \* the store holds the table "movies"
    handle,       \* self.table: "None" or the name of the bound table
    items,        \* the records of the table
    before,       \* the records of the table when the last request arrived
    last,         \* the last request handled and its outcome
    req,          \* concurrent add_movie requests: each thread's position
    puts          \* the threads whose put_item the store has applied, in order

vars == <<pc, tableExists, handle, items, before, last, req, puts>>

Threads == {1, 2}
Faults == {0, 1, 2}

NoRequest ==
    [route |-> "none", title |-> "", year |-> 0, plot |-> "", rating |-> 0,
     exc |-> NoExc, ret |-> None, calls |-> << >>, logged |-> FALSE,
     status |-> 0, existed |-> FALSE, faulty |-> FALSE]

Request(route, title, year, plot, rating, o, status, fault) ==
    [route |-> route, title |-> title, year |-> year, plot |-> plot,
     rating |-> rating, exc |-> o.exc, ret |-> o.ret, calls |-> o.calls,
     logged |-> o.logged, status |-> status, existed |-> tableExists,
     faulty |-> fault # 0 /\ fault <= Len(o.calls)]

IdleThread ==
    [stage |-> "idle", title |-> "", year |-> 0, plot |-> "", rating |-> 0,
     exc |-> NoExc, ret |-> None]

\* Movies(dynamodb), app.py:10-11: no handle yet; the store may or may not
\* hold the table, with records written before the service started
Init ==
    /\ pc = "boot"
    /\ tableExists \in BOOLEAN
    /\ handle = "None"
    /\ items \in (IF tableExists THEN SUBSET SeedItems ELSE {{}})
    /\ before = items
    /\ last = NoRequest
    /\ req = [t \in Threads |-> IdleThread]
    /\ puts = << >>

\* movie.create_table("movies") at import, app.py:12: an exception ends
\* the process before it serves
Startup ==
    /\ pc = "boot"
    /\ \E fault \in Faults :
        LET o == create_table(tableExists, "movies", fault)
        IN  /\ pc' = IF o.exc.type = "none" THEN "serving" ELSE "crashed"
            /\ tableExists' = o.exists
            /\ handle' = IF o.bound THEN "movies" ELSE handle
            /\ last' = Request("startup", "", 0, "", 0, o, 0, fault)
    /\ before' = items
    /\ UNCHANGED <<items, req, puts>>

\* POST /create_table
PostCreateTable ==
    /\ pc = "serving"
    /\ \E fault \in Faults :
        LET o == create_table(tableExists, "movies", fault)
        IN  /\ tableExists' = o.exists
            /\ handle' = IF o.bound THEN "movies" ELSE handle
            /\ last' = Request("create_table", "", 0, "", 0, o, Respond(o), fault)
    /\ before' = items
    /\ UNCHANGED <<pc, items, req, puts>>

\* PUT /add_movie
PutAddMovie ==
    /\ pc = "serving"
    /\ \E key \in Keys, plot \in Plots, rating \in Floats,
          fault \in Faults :
        LET title == key.title
            year == key.year
            o == add_movie(items, title, year, plot, rating, fault)
        IN  /\ items' = o.items
            /\ last' = Request("add_movie", title, year, plot, rating, o,
                                  Respond(o), fault)
    /\ before' = items
    /\ UNCHANGED <<pc, tableExists, handle, req, puts>>

\* GET /get_all_movies
GetAllMovies ==
    /\ pc = "serving"
    /\ \E page \in 1..MaxPage, trailing \in BOOLEAN, fault \in {0, 1} :
        LET o == list_all_items(items, page, trailing, fault)
        IN  /\ items' = o.items
            /\ last' = [Request("get_all_movies", "", 0, "", 0, o, Respond(o), fault)
                          EXCEPT !.year = page]
    /\ before' = items
    /\ UNCHANGED <<pc, tableExists, handle, req, puts>>

\* GET /get_movie
GetMovie ==
    /\ pc = "serving"
    /\ \E key \in Keys, fault \in {0, 1} :
        LET title == key.title
            year == key.year
            o == get_movie(items, title, year, fault)
        IN  /\ items' = o.items
            /\ last' = Request("get_movie", title, year, "", 0, o,
                                  app_get_movie(o), fault)
    /\ before' = items
    /\ UNCHANGED <<pc, tableExists, handle, req, puts>>

\* PUT /update_movie
PutUpdateMovie ==
    /\ pc = "serving"
    /\ \E key \in Keys, plot \in Plots, rating \in Floats,
          fault \in {0, 1} :
        LET title == key.title
            year == key.year
            o == update_movie(items, title, year, rating, plot, fault)
        IN  /\ items' = o.items
            /\ last' = Request("update_movie", title, year, plot, rating, o,
                                  app_update_movie(o), fault)
    /\ before' = items
    /\ UNCHANGED <<pc, tableExists, handle, req, puts>>

\* DELETE /delete_movie
DeleteMovie ==
    /\ pc = "serving"
    /\ \E key \in Keys, fault \in Faults :
        LET title == key.title
            year == key.year
            o == delete_movie(items, title, year, fault)
        IN  /\ items' = o.items
            /\ last' = Request("delete_movie", title, year, "", 0, o,
                                  app_delete_movie(o), fault)
    /\ before' = items
    /\ UNCHANGED <<pc, tableExists, handle, req, puts>>

Next ==
    \/ Startup
    \/ PostCreateTable
    \/ PutAddMovie
    \/ GetAllMovies
    \/ GetMovie
    \/ PutUpdateMovie
    \/ DeleteMovie

Spec == Init /\ [][Next]_vars

(***************************************************************************)
(* Concurrent requests.  The routes are plain functions, which FastAPI     *)
(* runs on worker threads; add_movie issues its two store requests with    *)
(* nothing held between them, so the threads interleave at each request.   *)
(***************************************************************************)
InitRace ==
    /\ pc = "serving"
    /\ tableExists = TRUE
    /\ handle = "movies"
    /\ items \in SUBSET SeedItems
    /\ before = items
    /\ last = NoRequest
    /\ req = [t \in Threads |-> IdleThread]
    /\ puts = << >>

\* thread t enters add_movie and runs its existence check (line 109-110)
RaceCheck(t) ==
    /\ req[t].stage = "idle"
    /\ \E key \in Keys, plot \in Plots, rating \in Floats :
        LET found == get_movie(items, key.title, key.year, 0)
        IN  req' = [req EXCEPT ![t] =
                       [stage |-> IF Truthy(found.ret) THEN "done" ELSE "checked",
                        title |-> key.title, year |-> key.year, plot |-> plot,
                        rating |-> rating,
                        exc |-> IF Truthy(found.ret)
                                THEN HTTPException(400, "Item already exists")
                                ELSE NoExc,
                        ret |-> None]]
    /\ UNCHANGED <<pc, tableExists, handle, items, before, last, puts>>

\* thread t, past the check, builds its Item and puts it (lines 111-122)
RacePut(t) ==
    /\ req[t].stage = "checked"
    /\ LET r == req[t]
           o == AddPut(items, r.title, r.year, r.plot, r.rating, FALSE, <<"get_item">>)
       IN  /\ items' = o.items
           /\ req' = [req EXCEPT ![t] = [r EXCEPT !.stage = "done", !.exc = o.exc,
                                                  !.ret = o.ret]]
           /\ puts' = IF Raised(o) THEN puts ELSE Append(puts, t)
    /\ UNCHANGED <<pc, tableExists, handle, before, last>>

NextRace == \E t \in Threads : RaceCheck(t) \/ RacePut(t)

SpecRace == InitRace /\ [][NextRace]_vars

(***************************************************************************)
(* Properties.                                                             *)
(***************************************************************************)
LastKey == MkKey(last.title, last.year)
\* the last request named a key that held no record / held a record
WasAbsent == Lookup(before, LastKey) = {}
WasPresent == Lookup(before, LastKey) # {}
RecordBefore == CHOOSE i \in Lookup(before, LastKey) : TRUE
RecordNow == CHOOSE i \in Lookup(items, LastKey) : TRUE

C2_DuplicateAddFails ==
    (last.route = "add_movie" /\ WasPresent /\ ~last.faulty)
    => /\ last.exc = HTTPException(400, "Item already exists")
       /\ last.status = 400
       /\ last.calls = <<"get_item">>
       /\ items = before

\* a second add that supplies another plot than the one stored
C2_Witness ==
    /\ last.route = "add_movie" /\ WasPresent /\ ~last.faulty
    /\ last.status = 400
    /\ RecordNow.info.plot # S(last.plot)
    /\ RecordNow.info = NewItem(last.title, last.year, "p", 1).info

\* C3: on a table that the call does not modify, list_all_items returns
\* every item of the table exactly once, in the order of the scan, for
\* every page size: an empty table, one page, many pages, and a last page
\* that is empty.
C3_ListAllItems ==
    (last.route = "get_all_movies" /\ ~last.faulty)
    => /\ last.exc = NoExc
       /\ last.ret.kind = "list"
       /\ items = before
       /\ Len(last.ret.data) = Cardinality(items)
       /\ \A i \in items :
            Cardinality({n \in 1..Len(last.ret.data) : last.ret.data[n] = i}) = 1
       /\ \A m, n \in 1..Len(last.ret.data) :
            m < n => Pos(KeyOf(last.ret.data[m])) < Pos(KeyOf(last.ret.data[n]))

\* three items listed in pages of one
C3_Witness ==
    /\ last.route = "get_all_movies" /\ last.exc = NoExc
    /\ last.year = 1
    /\ Cardinality(items) = 3
    /\ Len(last.ret.data) = 3

\* C4: delete_movie on a key that holds a record removes that record and
\* no other, and get_movie then returns None; on a key that holds none it
\* raises HTTPException "Item doesn't exists", issues no delete request and
\* leaves the table as it was.
C4_Delete ==
    (last.route = "delete_movie" /\ ~last.faulty)
    => IF WasPresent
       THEN /\ last.exc = NoExc
            /\ last.calls = <<"get_item", "delete_item">>
            /\ get_movie(items, last.title, last.year, 0).ret = None
            /\ items = before \ Lookup(before, LastKey)
       ELSE /\ last.exc.type = "HTTPException"
            /\ last.exc.code = "Item doesn't exists"
            /\ last.calls = <<"get_item">>
            /\ items = before

\* a record deleted from a table that holds others
C4_Witness ==
    /\ last.route = "delete_movie" /\ WasPresent /\ last.exc = NoExc
    /\ Lookup(items, LastKey) = {}
    /\ items # {}

\* C5: update_movie on a key that holds a record (a finite rating, a store
\* that answers) sets info.rating and info.plot of that record and nothing
\* else: year, title and the other attributes of info stay, and so does
\* every other record; it returns exactly info.rating and info.plot with
\* their new values.
C5_UpdateFrame ==
    (last.route = "update_movie" /\ WasPresent /\ ~last.faulty /\ IsFinite(last.rating))
    => /\ last.exc = NoExc
       /\ Lookup(items, LastKey) # {}
       /\ items \ Lookup(items, LastKey) = before \ Lookup(before, LastKey)
       /\ DOMAIN RecordNow.info = DOMAIN RecordBefore.info
       /\ \A a \in DOMAIN RecordNow.info \ {"rating", "plot"} :
            RecordNow.info[a] = RecordBefore.info[a]
       /\ RecordNow.info.plot = S(last.plot)
       /\ FloatOfDecimal(RecordNow.info.rating.n) = last.rating
       /\ last.ret.kind = "Attributes"
       /\ DOMAIN last.ret.info = {"rating", "plot"}
       /\ last.ret.info.plot = RecordNow.info.plot
       /\ last.ret.info.rating = RecordNow.info.rating

\* an update that changes the plot of a record holding a third attribute
C5_Witness ==
    /\ last.route = "update_movie" /\ WasPresent /\ last.exc = NoExc
    /\ "rank" \in DOMAIN RecordBefore.info
    /\ RecordBefore.info.plot # RecordNow.info.plot
    /\ Cardinality(items) > 1

\* C6: update_movie on a key that holds no record fails, creates no record,
\* and the HTTP caller is answered 404 "not found".
C6_UpdateAbsentIs404 ==
    (last.route = "update_movie" /\ WasAbsent /\ ~last.faulty /\ IsFinite(last.rating))
    => /\ Raised(last)
       /\ Lookup(items, LastKey) = {}
       /\ last.status = 404

\* C7: create_table returns the table handle both when the table exists
\* and when it creates it, with self.table bound to it; it issues a create
\* request only when the probe found the table absent.
C7_CreateTableReturnsHandle ==
    (last.route \in {"startup", "create_table"} /\ last.exc = NoExc)
    => /\ last.ret = TableValue("movies")
       /\ handle = "movies"
       /\ tableExists
       /\ (last.existed <=> last.calls = <<"load">>)

\* C8: in every operation a store error (other than the "not found" of a
\* probe or a lookup) reaches the caller unchanged, with the table as it
\* was.
C8_StoreErrorsReraised ==
    last.faulty => (last.exc = StoreFault /\ items = before)

\* C9: GET /get_movie for a key that holds no record answers 404.
C9_GetAbsentIs404 ==
    (last.route = "get_movie" /\ WasAbsent /\ ~last.faulty)
    => last.status = 404

\* the threads that ran add_movie to its end without an exception
Added == {t \in Threads : req[t].stage = "done" /\ req[t].exc = NoExc}

\* C10: two concurrent add_movie calls for the same absent key can both
\* pass the existence check and both put: whenever both have returned
\* their Item for one key, neither was refused, the store applied both
\* puts, and the record stored is the Item of the put applied last.
C10_LaterPutWins ==
    (Added = Threads /\ req[1].title = req[2].title /\ req[1].year = req[2].year)
    => /\ Len(puts) = 2
       /\ \A t \in Threads : req[t].ret.kind = "dict"
       /\ LET r == req[puts[2]]
          IN  Lookup(items, MkKey(r.title, r.year)) = {Stored(r.ret.item)}

\* both adds of one key succeeded and the record of the first is gone
C10_Witness ==
    /\ Added = Threads
    /\ req[1].title = req[2].title /\ req[1].year = req[2].year
    /\ Len(puts) = 2
    /\ Stored(req[puts[1]].ret.item) \notin items
    /\ Stored(req[puts[2]].ret.item) \in items

=============================================================================
